---------------------------- MODULE Spec2Model ----------------------------
(***************************************************************************)
(* Model of the Azure DevOps MCP adapter: get_pull_request_full_diff       *)
(* (src/src/tools/pull_requests.py) with its helpers                       *)
(* get_latest_iteration_id and get_blob_text (src/src/utils/helpers.py),   *)
(* run against an upstream REST service.                                   *)
(*                                                                         *)
(* Text is a sequence of tokens (strings); the empty text is << >>.        *)
(* An optional JSON value is a sequence of length <= 1: None is << >> and  *)
(* a present value v is << v >>.                                           *)
(***************************************************************************)
EXTENDS Integers, Sequences, FiniteSets, TLC

VARIABLES
    upstream,       \* the upstream service: iterations, change list, blobs, threads, fault
    pc,             \* position of the running invocation
    pr_id,          \* argument pr_id of the invocation
    requests,       \* the requests issued by the invocation so far, in order
    returned,       \* how many of them have returned
    iteration_id,   \* local iteration_id (optional)
    entries,        \* local entries
    idx,            \* position of the for loop over entries (1-based)
    cur,            \* locals of the current loop iteration
    unified_parts,  \* local unified_parts
    diff_text,      \* local diff_text (optional text)
    result,         \* the returned dictionary (optional)
    outcome,        \* "none", "ok", or the exception that ended the invocation
    first,          \* what the first finished invocation was called with and gave (optional)
    repositories,   \* the upstream service: the response of the repository listing
    repo_key,       \* argument repo_key of resolve_repo_id (optional)
    resolved,       \* the id resolve_repo_id returned (optional)
    service,        \* the upstream service: what the other tools read and write
    args,           \* the arguments of the running call of another tool (optional)
    payloads        \* the JSON bodies of the requests of that call, in order

vars == << upstream, pc, pr_id, requests, returned, iteration_id, entries, idx,
           cur, unified_parts, diff_text, result, outcome, first, repositories,
           repo_key, resolved, service, args, payloads >>

others == << first, repositories, repo_key, resolved, service, args, payloads >>

----------------------------------------------------------------------------
(* Bounds of the model *)

MaxIter == 2
MaxEntries == 2
MaxThreads == 2
MaxComments == 2

----------------------------------------------------------------------------
(* Optional values and texts *)

None == << >>
Some(v) == << v >>
Val(o) == o[1]

NL == "\n"

(* the sequences over S of length at most n *)
SeqsUpTo(S, n) == UNION { [ 1..m -> S ] : m \in 0..n }

DigitChars == << "0", "1", "2", "3", "4", "5", "6", "7", "8", "9" >>

(* str(n) of a non-negative integer, as the f-strings format pr_id *)
RECURSIVE IntToStr(_)
IntToStr(n) ==
    IF n < 10 THEN << DigitChars[n + 1] >>
    ELSE IntToStr(n \div 10) \o << DigitChars[(n % 10) + 1] >>

(* sep.join(parts) *)
RECURSIVE Join(_, _)
Join(sep, parts) ==
    IF parts = << >> THEN << >>
    ELSE IF Len(parts) = 1 THEN parts[1]
    ELSE parts[1] \o sep \o Join(sep, Tail(parts))

(* faulty variant: a hash that was requested before is not requested again *)
TruthyUncached(o) ==
    /\ o # None
    /\ o # Some("")
    /\ \A i \in 1..Len(requests) : requests[i].object # o

(* Python truthiness of an optional string: None and "" are falsy *)
Truthy(o) == o # None /\ o # Some("")

----------------------------------------------------------------------------
(* Requests *)

REPO == "repo-1"

(* faulty variant: the request is sent with client.post *)
RequestPost(scope, resource, pr, iteration, object) ==
    [ method |-> "POST", scope |-> scope, resource |-> resource, repo |-> REPO,
      pr |-> pr, iteration |-> iteration, object |-> object ]

(* client.get(url) *)
Request(scope, resource, pr, iteration, object) ==
    [ method |-> "GET", scope |-> scope, resource |-> resource, repo |-> REPO,
      pr |-> pr, iteration |-> iteration, object |-> object ]

IterationsRequest(pr) == Request("project", "iterations", Some(pr), None, None)
ChangesRequest(pr, it) == Request("org", "changes", Some(pr), Some(it), None)
BlobRequest(object_id) == Request("project", "blob", None, None, Some(object_id))
ThreadsRequest(pr) == Request("org", "threads", Some(pr), None, None)

----------------------------------------------------------------------------
(* Responses of the upstream service *)

Is2xx(status) == status >= 200 /\ status < 300

(* faulty variant: the status of a list response is never looked at *)
RaisesNever(status) == FALSE

(* resp.raise_for_status(): does the response raise HTTPStatusError *)
RaisesForStatus(status) == ~Is2xx(status)

ListStatus(resource) == IF upstream.fault = resource THEN 500 ELSE 200

BlobResponse(object_id) ==
    IF object_id \in DOMAIN upstream.blobs THEN upstream.blobs[object_id]
    ELSE [ kind |-> "http", status |-> 404, text |-> << "not found" >> ]


----------------------------------------------------------------------------
(* get_latest_iteration_id, after the response has passed raise_for_status *)

(* faulty variant: the greatest id of the listing instead of its last element *)
MaxIterationId(iterations) ==
    CHOOSE m \in { iterations[i].id : i \in 1..Len(iterations) } :
        \A i \in 1..Len(iterations) : iterations[i].id <= m

(* iterations[-1]["id"] *)
LastIterationId(iterations) == iterations[Len(iterations)].id

(* faulty variant: an empty listing is not an error, the id defaults to 0 *)
LatestIterationNoCheck(iterations) ==
    IF iterations = << >>
    THEN [ raised |-> "none", id |-> Some(0) ]
    ELSE [ raised |-> "none", id |-> Some(iterations[Len(iterations)].id) ]

(* the outcome of get_latest_iteration_id on the body `iterations`:
   the exception it raises, or the id it returns *)
LatestIteration(iterations) ==
    IF iterations = << >>
    THEN [ raised |-> "RuntimeError", id |-> None ]
    ELSE [ raised |-> "none", id |-> Some(LastIterationId(iterations)) ]

----------------------------------------------------------------------------
(* get_blob_text, after the response has arrived *)

(* faulty variant: the status of the response is not looked at *)
BlobTextAnyStatus(resp) == resp.text

(* faulty variant: every success status counts, not only 200 *)
BlobTextAny2xx(resp) == IF Is2xx(resp.status) THEN resp.text ELSE << >>

BlobText(resp) == IF resp.status # 200 THEN << >> ELSE resp.text

----------------------------------------------------------------------------
(* get_pull_request_full_diff: the change list *)

ListTruthy(o) == o # None /\ Val(o) # << >>

(* data.get("changeEntries") or data.get("changes") or [] *)
ChangeEntriesOf(data) ==
    IF ListTruthy(data.changeEntries) THEN Val(data.changeEntries)
    ELSE IF ListTruthy(data.changes) THEN Val(data.changes)
    ELSE << >>

NoItem == [ path |-> None, originalObjectId |-> None, objectId |-> None ]

(* change.get("item") or {} *)
ItemOf(change) == IF change.item = None THEN NoItem ELSE Val(change.item)

(* item.get("path", "<unknown-path>") *)
PathOf(change) ==
    IF ItemOf(change).path = None THEN "<unknown-path>" ELSE Val(ItemOf(change).path)

(* change.get("changeType", "?") *)
ChangeTypeOf(change) ==
    IF change.changeType = None THEN "?" ELSE Val(change.changeType)

(* faulty variant: the original side reads the key of the new side *)
OriginalIdCopied(change) == ItemOf(change).objectId

OriginalIdOf(change) == ItemOf(change).originalObjectId

(* faulty variant: the new side reads the key of the original side *)
NewIdCopied(change) == ItemOf(change).originalObjectId

NewIdOf(change) == ItemOf(change).objectId

ORIGINAL_MARK == "--- ORIGINAL ---"
MODIFIED_MARK == "--- MODIFIED ---"

(* faulty variant: the two contents under each other's marker *)
BlockSwapped(path, change_type, original_text, modified_text) ==
    << "--- a", path, NL,
       "+++ b", path, NL,
       "@@ ", change_type, " ", path, " @@", NL,
       ORIGINAL_MARK, NL >> \o modified_text \o << NL,
       MODIFIED_MARK, NL >> \o original_text \o << NL >>

(* the f-string appended to unified_parts *)
Block(path, change_type, original_text, modified_text) ==
    << "--- a", path, NL,
       "+++ b", path, NL,
       "@@ ", change_type, " ", path, " @@", NL,
       ORIGINAL_MARK, NL >> \o original_text \o << NL,
       MODIFIED_MARK, NL >> \o modified_text \o << NL >>

(* faulty variant: the block is put in front of the list *)
PrependPart(parts, block) == << block >> \o parts

(* unified_parts.append(block) *)
AppendPart(parts, block) == Append(parts, block)

(* faulty variant: the sentence without the pull request id *)
NoChangesTextNoId(pr) == << "No change entries found for PR #", "." >>

NoChangesText(pr) == << "No change entries found for PR #" >> \o IntToStr(pr) \o << "." >>

(* "\n".join(unified_parts) *)
JoinParts(parts) == Join(<< NL >>, parts)

----------------------------------------------------------------------------
(* get_pull_request_full_diff: the comment threads *)

(* thread.get("threadContext") or {} followed by .get(key) or {} and .get("line") *)
StartLine(thread, side) ==
    IF thread.threadContext = None THEN None
    ELSE LET start == Val(thread.threadContext)[side]
         IN  IF start = None THEN None ELSE Val(start).line

FilePathOf(thread) ==
    IF thread.threadContext = None THEN None ELSE Val(thread.threadContext).filePath

(* faulty variant: `if right_start.get("line")`, which takes line 0 for absent *)
ThreadLineTruthy(thread) ==
    LET right == StartLine(thread, "rightFileStart")
        left == StartLine(thread, "leftFileStart")
    IN  IF right # None /\ right # Some(0) THEN right
        ELSE IF left # None /\ left # Some(0) THEN left
        ELSE None

ThreadLine(thread) ==
    IF StartLine(thread, "rightFileStart") # None THEN StartLine(thread, "rightFileStart")
    ELSE IF StartLine(thread, "leftFileStart") # None THEN StartLine(thread, "leftFileStart")
    ELSE None

(* (c.get("author") or {}).get("displayName") *)
AuthorName(c) == IF c.author = None THEN None ELSE Val(c.author).displayName

CommentRecord(thread, c) ==
    [ file |-> FilePathOf(thread),
      line |-> ThreadLine(thread),
      content |-> c.content,
      author |-> AuthorName(c),
      status |-> thread.status,
      threadId |-> thread.id,
      commentId |-> c.id ]

(* faulty variant: only the comment that opens the thread is taken *)
ThreadCommentsFirstOnly(thread) ==
    IF thread.comments = << >> THEN << >>
    ELSE << CommentRecord(thread, thread.comments[1]) >>

(* the inner loop: for c in thread.get("comments", []) *)
ThreadComments(thread) ==
    [ i \in 1..Len(thread.comments) |-> CommentRecord(thread, thread.comments[i]) ]

(* faulty variant: threads that are not active are left out *)
RECURSIVE NormalizeActiveThreads(_)
NormalizeActiveThreads(threads) ==
    IF threads = << >> THEN << >>
    ELSE (IF Head(threads).status = Some("active") THEN ThreadComments(Head(threads)) ELSE << >>)
         \o NormalizeActiveThreads(Tail(threads))

(* the outer loop: for thread in threads *)
RECURSIVE NormalizeThreads(_)
NormalizeThreads(threads) ==
    IF threads = << >> THEN << >>
    ELSE ThreadComments(Head(threads)) \o NormalizeThreads(Tail(threads))

(* faulty variant: the diff is returned under the key of the docstring *)
ResultDictUnified(diff, comments) == [ unified_diff |-> diff, comments |-> comments ]

(* return {"diff": diff_text, "comments": comments_out} *)
ResultDict(diff, comments) == [ diff |-> diff, comments |-> comments ]

----------------------------------------------------------------------------
(* The upstream states the model starts from *)

PrIds == { 42, 105 }
IterationIds == { 3, 7 }

IterationListings == SeqsUpTo({ [ id |-> n ] : n \in IterationIds }, MaxIter)

HttpResp(status, text) == [ kind |-> "http", status |-> status, text |-> text ]
FailedResp == [ kind |-> "failed", status |-> 0, text |-> << >> ]

(* what a blob request may get: the text, an empty file, a file of two lines, a
   sign-in page with a 2xx status, an error status, or no response at all *)
BlobOutcomes(text) ==
    { HttpResp(200, text), HttpResp(200, << >>), HttpResp(200, << "line 1", NL, "line 2" >>),
      HttpResp(203, << "<html>sign in</html>" >>),
      HttpResp(404, << "not found" >>), FailedResp }

OldText == << "old" >>
NewText == << "new" >>

BlobStores ==
    { [ h1 |-> r, h2 |-> HttpResp(200, NewText) ] : r \in BlobOutcomes(OldText) }
    \cup { [ h1 |-> HttpResp(200, OldText), h2 |-> r ] : r \in BlobOutcomes(NewText) }

Item(path, original, new) ==
    Some([ path |-> path, originalObjectId |-> original, objectId |-> new ])

Change(item, change_type) == [ isDict |-> TRUE, item |-> item, changeType |-> change_type ]

(* an element of the listing that is not a JSON object *)
NotADict == [ isDict |-> FALSE, item |-> None, changeType |-> None ]

ChangeShapes ==
    { Change(Item(Some("/src/a.py"), Some("h1"), Some("h2")), Some("edit")),
      Change(Item(Some("/b.txt"), None, Some("h2")), Some("add")),
      Change(Item(Some("/src/a.py"), Some("h1"), None), Some("delete")),
      Change(Item(Some("/b.txt"), Some("h1"), Some("h1")), Some("rename")),
      Change(Item(Some("/c"), None, None), Some("edit")),
      Change(None, None),
      NotADict }

ChangeListings == SeqsUpTo(ChangeShapes, MaxEntries)

ChangeBodies ==
    { [ changeEntries |-> Some(es), changes |-> None ] : es \in ChangeListings }
    \cup { [ changeEntries |-> None, changes |-> Some(es) ] : es \in ChangeListings }
    \cup { [ changeEntries |-> None, changes |-> None ],
           [ changeEntries |-> Some(<< >>), changes |-> Some(<< >>) ] }

Start(line) == Some([ line |-> line ])
Context(path, right, left) ==
    Some([ filePath |-> path, rightFileStart |-> right, leftFileStart |-> left ])

Anchors ==
    { None,
      Context(Some("/src/a.py"), Start(Some(5)), Start(Some(3))),
      Context(Some("/src/a.py"), Start(Some(0)), Start(Some(3))),
      Context(Some("/src/a.py"), Start(Some(5)), None),
      Context(Some("/src/a.py"), None, Start(Some(3))),
      Context(Some("/src/a.py"), Start(None), Start(Some(0))),
      Context(None, None, None) }

Statuses == { None, Some("active"), Some("fixed") }

CommentShapes ==
    { [ content |-> Some("LGTM"), author |-> Some([ displayName |-> Some("Ann") ]) ],
      [ content |-> Some("nit"), author |-> None ] }

DefaultAnchor == Context(Some("/b.txt"), Start(Some(9)), None)
DefaultComments == << [ content |-> Some("why?"), author |-> Some([ displayName |-> Some("Bob") ]) ] >>

ThreadShapes ==
    { [ threadContext |-> a, status |-> Some("active"), comments |-> DefaultComments ] : a \in Anchors }
    \cup { [ threadContext |-> DefaultAnchor, status |-> st, comments |-> DefaultComments ] : st \in Statuses }
    \cup { [ threadContext |-> DefaultAnchor, status |-> Some("active"), comments |-> cs ] :
             cs \in SeqsUpTo(CommentShapes, MaxComments) }

(* the upstream numbers the threads of a pull request, and the comments of a thread *)
NumberComments(cs) ==
    [ j \in 1..Len(cs) |-> [ id |-> Some(j), content |-> cs[j].content, author |-> cs[j].author ] ]

NumberThreads(shapes) ==
    [ i \in 1..Len(shapes) |->
        [ id |-> Some(10 * i), status |-> shapes[i].status,
          threadContext |-> shapes[i].threadContext,
          comments |-> NumberComments(shapes[i].comments) ] ]

Faults == { "none", "iterations", "changes", "threads" }

DefaultIterations == << [ id |-> 7 ] >>
DefaultBlobs == [ h1 |-> HttpResp(200, OldText), h2 |-> HttpResp(200, NewText) ]
DefaultChanges ==
    [ changeEntries |->
        Some(<< Change(Item(Some("/src/a.py"), Some("h1"), Some("h2")), Some("edit")) >>),
      changes |-> None ]
DefaultThreads == << >>

Upstream(its, body, blobs, threads, fault) ==
    [ iterations |-> its, changes |-> body, blobs |-> blobs, threads |-> threads,
      fault |-> fault ]

NoChanges == [ changeEntries |-> None, changes |-> None ]

(* the upstream states a behaviour may start from: every iteration listing,
   every change list with every blob store, every thread listing, each with
   the rest of the upstream at its default, and the failures of the three list
   requests *)
InitUpstream ==
    \/ \E its \in IterationListings :
          upstream = Upstream(its, DefaultChanges, DefaultBlobs, DefaultThreads, "none")
    \/ \E body \in ChangeBodies, blobs \in BlobStores :
          upstream = Upstream(DefaultIterations, body, blobs, DefaultThreads, "none")
    \/ \E ts \in SeqsUpTo(ThreadShapes, MaxThreads) :
          upstream = Upstream(DefaultIterations, DefaultChanges, DefaultBlobs,
                              NumberThreads(ts), "none")
    \/ \E body \in { DefaultChanges, NoChanges }, ts \in SeqsUpTo(ThreadShapes, 1), f \in Faults :
          upstream = Upstream(DefaultIterations, body, DefaultBlobs, NumberThreads(ts), f)

----------------------------------------------------------------------------
(* The state before an invocation *)

NoCur == [ path |-> "", change_type |-> "", original_id |-> None, new_id |-> None,
           original_text |-> << >> ]

ProjectNames == { "Alpha", "Beta" }

UnknownProject == [ status |-> 404, id |-> None ]

(* what the other tools read and write, before any of them has run: no thread
   was posted, no branch exists, no project is known, no work item is linked *)
DefaultService ==
    [ posted |-> << >>, post_status |-> 200,
      refs |-> << >>, refs_status |-> 200,
      projects |-> [ n \in ProjectNames |-> UnknownProject ],
      patch_status |-> 200, relations |-> << >> ]

(* the threads the service lists for a pull request: those that were there,
   then the ones that were posted to it *)
ThreadsOf(pr) ==
    LET mine == SelectSeq(service.posted, LAMBDA p : p.pr = pr)
    IN  upstream.threads \o [ i \in 1..Len(mine) |-> mine[i].thread ]

(* the repository listing while get_pull_request_full_diff runs: not read *)
DefaultRepositories == [ status |-> 200, value |-> << >> ]

(* nothing is running *)
InitLocals ==
    /\ pc = "idle"
    /\ pr_id = 0
    /\ requests = << >>
    /\ returned = 0
    /\ iteration_id = None
    /\ entries = << >>
    /\ idx = 0
    /\ cur = NoCur
    /\ unified_parts = << >>
    /\ diff_text = None
    /\ result = None
    /\ outcome = "none"
    /\ first = None
    /\ repo_key = None
    /\ resolved = None
    /\ args = None
    /\ payloads = << >>

Init ==
    /\ InitUpstream
    /\ repositories = DefaultRepositories
    /\ service = DefaultService
    /\ InitLocals

----------------------------------------------------------------------------
(* faulty variant: the loop does not move on to the next entry *)
Stay(i) == i

(* `for change in entries`: the next entry *)
Advance(i) == i + 1

(* get_pull_request_full_diff(REPO, pr), one action per stretch of code between
   two blocking requests *)

(* the call, up to the request of get_latest_iteration_id *)
Invoke(pr) ==
    /\ pc = "idle"
    /\ pr_id' = pr
    /\ requests' = << IterationsRequest(pr) >>
    /\ returned' = 0
    /\ pc' = "iterations"
    /\ UNCHANGED others
    /\ UNCHANGED << upstream, iteration_id, entries, idx, cur, unified_parts,
                    diff_text, result, outcome >>

(* the rest of get_latest_iteration_id, then the change-list request *)
IterationsReturn ==
    /\ pc = "iterations"
    /\ returned' = returned + 1
    /\ IF RaisesForStatus(ListStatus("iterations"))
       THEN /\ pc' = "error"
            /\ outcome' = "HTTPStatusError"
            /\ UNCHANGED << iteration_id, requests >>
       ELSE LET latest == LatestIteration(upstream.iterations)
            IN  IF latest.raised # "none"
                THEN /\ pc' = "error"
                     /\ outcome' = latest.raised
                     /\ UNCHANGED << iteration_id, requests >>
                ELSE /\ iteration_id' = latest.id
                     /\ requests' = Append(requests, ChangesRequest(pr_id, Val(latest.id)))
                     /\ pc' = "changes"
                     /\ UNCHANGED outcome
    /\ UNCHANGED others
    /\ UNCHANGED << upstream, pr_id, entries, idx, cur, unified_parts, diff_text, result >>

(* the change list has arrived: no entries gives the sentence and the thread
   request, entries start the loop *)
ChangesReturn ==
    /\ pc = "changes"
    /\ returned' = returned + 1
    /\ IF RaisesForStatus(ListStatus("changes"))
       THEN /\ pc' = "error"
            /\ outcome' = "HTTPStatusError"
            /\ UNCHANGED << entries, idx, diff_text, requests >>
       ELSE LET es == ChangeEntriesOf(upstream.changes)
            IN  /\ entries' = es
                /\ UNCHANGED outcome
                /\ IF es = << >>
                   THEN /\ diff_text' = Some(NoChangesText(pr_id))
                        /\ requests' = Append(requests, ThreadsRequest(pr_id))
                        /\ pc' = "threads"
                        /\ UNCHANGED idx
                   ELSE /\ idx' = 1
                        /\ pc' = "loop"
                        /\ UNCHANGED << diff_text, requests >>
    /\ UNCHANGED others
    /\ UNCHANGED << upstream, pr_id, iteration_id, cur, unified_parts, result >>

(* the head of `for change in entries` and the body up to its first request *)
ForChange ==
    /\ pc = "loop"
    /\ IF idx > Len(entries)
       THEN /\ diff_text' = Some(JoinParts(unified_parts))
            /\ requests' = Append(requests, ThreadsRequest(pr_id))
            /\ pc' = "threads"
            /\ UNCHANGED << idx, cur, unified_parts >>
       ELSE LET change == entries[idx]
                path == PathOf(change)
                change_type == ChangeTypeOf(change)
                original_id == OriginalIdOf(change)
                new_id == NewIdOf(change)
                locals == [ path |-> path, change_type |-> change_type,
                            original_id |-> original_id, new_id |-> new_id,
                            original_text |-> << >> ]
            IN  /\ UNCHANGED diff_text
                /\ IF ~change.isDict
                   THEN /\ idx' = Advance(idx)
                        /\ UNCHANGED << pc, cur, unified_parts, requests >>
                   ELSE /\ cur' = locals
                        /\ IF Truthy(original_id)
                           THEN /\ requests' = Append(requests, BlobRequest(Val(original_id)))
                                /\ pc' = "original_blob"
                                /\ UNCHANGED << idx, unified_parts >>
                           ELSE IF Truthy(new_id)
                           THEN /\ requests' = Append(requests, BlobRequest(Val(new_id)))
                                /\ pc' = "modified_blob"
                                /\ UNCHANGED << idx, unified_parts >>
                           ELSE /\ unified_parts' =
                                       AppendPart(unified_parts,
                                                  Block(path, change_type, << >>, << >>))
                                /\ idx' = Advance(idx)
                                /\ UNCHANGED << pc, requests >>
    /\ UNCHANGED others
    /\ UNCHANGED << upstream, pr_id, returned, iteration_id, entries, result, outcome >>

(* get_blob_text(repo_id, original_id) returns; then the modified side *)
OriginalBlobReturn ==
    /\ pc = "original_blob"
    /\ returned' = returned + 1
    /\ LET resp == BlobResponse(Val(cur.original_id))
       IN  IF resp.kind = "failed"
           THEN /\ pc' = "error"
                /\ outcome' = "RequestError"
                /\ UNCHANGED << cur, idx, unified_parts, requests >>
           ELSE /\ UNCHANGED outcome
                /\ cur' = [ cur EXCEPT !.original_text = BlobText(resp) ]
                /\ IF Truthy(cur.new_id)
                   THEN /\ requests' = Append(requests, BlobRequest(Val(cur.new_id)))
                        /\ pc' = "modified_blob"
                        /\ UNCHANGED << idx, unified_parts >>
                   ELSE /\ unified_parts' =
                               AppendPart(unified_parts,
                                          Block(cur.path, cur.change_type, BlobText(resp), << >>))
                        /\ idx' = Advance(idx)
                        /\ pc' = "loop"
                        /\ UNCHANGED requests
    /\ UNCHANGED others
    /\ UNCHANGED << upstream, pr_id, iteration_id, entries, diff_text, result >>

(* get_blob_text(repo_id, new_id) returns; the block is appended *)
ModifiedBlobReturn ==
    /\ pc = "modified_blob"
    /\ returned' = returned + 1
    /\ LET resp == BlobResponse(Val(cur.new_id))
       IN  IF resp.kind = "failed"
           THEN /\ pc' = "error"
                /\ outcome' = "RequestError"
                /\ UNCHANGED << idx, unified_parts >>
           ELSE /\ UNCHANGED outcome
                /\ unified_parts' =
                       AppendPart(unified_parts,
                                  Block(cur.path, cur.change_type, cur.original_text,
                                        BlobText(resp)))
                /\ idx' = Advance(idx)
                /\ pc' = "loop"
    /\ UNCHANGED others
    /\ UNCHANGED << upstream, pr_id, requests, iteration_id, entries, cur, diff_text, result >>

(* the thread list has arrived: the comments are flattened and the dictionary returned *)
ThreadsReturn ==
    /\ pc = "threads"
    /\ returned' = returned + 1
    /\ IF RaisesForStatus(ListStatus("threads"))
       THEN /\ pc' = "error"
            /\ outcome' = "HTTPStatusError"
            /\ UNCHANGED result
       ELSE /\ result' = Some(ResultDict(Val(diff_text), NormalizeThreads(ThreadsOf(pr_id))))
            /\ pc' = "done"
            /\ outcome' = "ok"
    /\ UNCHANGED others
    /\ UNCHANGED << upstream, pr_id, requests, iteration_id, entries, idx, cur,
                    unified_parts, diff_text >>

(* faulty variant: the list of blocks outlives the call *)
StaleParts == unified_parts

(* unified_parts: List[str] = [] at every call *)
FreshParts == << >>

(* the locals of a call are gone when it ends, and fresh at the next call *)
ResetLocals ==
    /\ pc' = "idle"
    /\ pr_id' = 0
    /\ requests' = << >>
    /\ returned' = 0
    /\ iteration_id' = None
    /\ entries' = << >>
    /\ idx' = 0
    /\ cur' = NoCur
    /\ unified_parts' = FreshParts
    /\ diff_text' = None
    /\ result' = None
    /\ outcome' = "none"

(* the caller has the result or the exception *)
Return ==
    /\ pc \in { "done", "error" }
    /\ ResetLocals
    /\ UNCHANGED << upstream, others >>

(* the same, with the first finished invocation remembered for comparison *)
ReturnRemembered ==
    /\ pc \in { "done", "error" }
    /\ ResetLocals
    /\ first' = IF first = None
                THEN Some([ pr |-> pr_id, outcome |-> outcome, result |-> result ])
                ELSE first
    /\ UNCHANGED << upstream, repositories, repo_key, resolved, service, args, payloads >>

Next ==
    \/ \E pr \in PrIds : Invoke(pr)
    \/ IterationsReturn
    \/ ChangesReturn
    \/ ForChange
    \/ OriginalBlobReturn
    \/ ModifiedBlobReturn
    \/ ThreadsReturn
    \/ Return

Spec == Init /\ [][Next]_vars

(* invocations following each other, the first one remembered *)
NextRepeat ==
    \/ \E pr \in PrIds : Invoke(pr)
    \/ IterationsReturn
    \/ ChangesReturn
    \/ ForChange
    \/ OriginalBlobReturn
    \/ ModifiedBlobReturn
    \/ ThreadsReturn
    \/ ReturnRemembered

SpecRepeat == Init /\ [][NextRepeat]_vars

(* every request that was issued is answered in the end, and the code between
   two requests runs to the next request *)
Fairness ==
    /\ WF_vars(IterationsReturn)
    /\ WF_vars(ChangesReturn)
    /\ WF_vars(ForChange)
    /\ WF_vars(OriginalBlobReturn)
    /\ WF_vars(ModifiedBlobReturn)
    /\ WF_vars(ThreadsReturn)

SpecLive == Init /\ [][Next]_vars /\ Fairness

----------------------------------------------------------------------------
(* resolve_repo_id: a repository key (a GUID or a name) to a repository id.
   A key, a name and an id are sequences of characters. *)

MaxRepos == 2

(* the {36} of the pattern *)
GuidLen == 36

HexDigits ==
    { "0", "1", "2", "3", "4", "5", "6", "7", "8", "9",
      "a", "b", "c", "d", "e", "f", "A", "B", "C", "D", "E", "F" }

(* the character class [0-9a-fA-F-] *)
GuidChars == HexDigits \cup { "-" }

(* faulty variant: re.match, which does not look past the 36th character *)
IsGuidPrefix(key) ==
    /\ Len(key) >= GuidLen
    /\ \A i \in 1..GuidLen : key[i] \in GuidChars

(* re.fullmatch(r"[0-9a-fA-F-]{36}", repo_key) *)
IsGuid(key) ==
    /\ Len(key) = GuidLen
    /\ \A i \in 1..Len(key) : key[i] \in GuidChars

(* for repo in data.get("value", []): if repo["name"] == repo_key: return repo["id"] *)
RECURSIVE FindRepo(_, _)
FindRepo(repos, key) ==
    IF repos = << >> THEN None
    ELSE IF Head(repos).name = key THEN Some(Head(repos).id)
    ELSE FindRepo(Tail(repos), key)

(* client.get of {ADO_ORG_URL}/{ADO_PROJECT}/_apis/git/repositories *)
RepositoriesRequest ==
    [ method |-> "GET", scope |-> "project", resource |-> "repositories", repo |-> "",
      pr |-> None, iteration |-> None, object |-> None ]

(* the example of the docstring *)
GuidKey ==
    << "7", "c", "9", "a", "1", "f", "2", "e", "-", "1", "2", "3", "4", "-",
       "4", "d", "5", "e", "-", "9", "a", "b", "c", "-", "0", "f", "1", "1",
       "2", "2", "3", "3", "4", "4", "5", "5" >>

(* the same in capitals *)
UpperKey ==
    << "7", "C", "9", "A", "1", "F", "2", "E", "-", "1", "2", "3", "4", "-",
       "4", "D", "5", "E", "-", "9", "A", "B", "C", "-", "0", "F", "1", "1",
       "2", "2", "3", "3", "4", "4", "5", "5" >>

(* 36 hex digits and no dash *)
NoDashKey ==
    << "7", "c", "9", "a", "1", "f", "2", "e", "1", "2", "3", "4", "4", "d",
       "5", "e", "9", "a", "b", "c", "0", "f", "1", "1", "2", "2", "3", "3",
       "4", "4", "5", "5", "0", "0", "0", "0" >>

(* one character short *)
ShortKey ==
    << "7", "c", "9", "a", "1", "f", "2", "e", "-", "1", "2", "3", "4", "-",
       "4", "d", "5", "e", "-", "9", "a", "b", "c", "-", "0", "f", "1", "1",
       "2", "2", "3", "3", "4", "4", "5" >>

(* one character more *)
LongKey ==
    << "7", "c", "9", "a", "1", "f", "2", "e", "-", "1", "2", "3", "4", "-",
       "4", "d", "5", "e", "-", "9", "a", "b", "c", "-", "0", "f", "1", "1",
       "2", "2", "3", "3", "4", "4", "5", "5", "5" >>

(* 36 characters, the first no hex digit *)
NotHexKey ==
    << "g", "c", "9", "a", "1", "f", "2", "e", "-", "1", "2", "3", "4", "-",
       "4", "d", "5", "e", "-", "9", "a", "b", "c", "-", "0", "f", "1", "1",
       "2", "2", "3", "3", "4", "4", "5", "5" >>

(* a repository name *)
NameKey ==
    << "r", "o", "a", "d", "-", "a", "p", "i" >>

(* the name in another case *)
CaseKey ==
    << "R", "o", "a", "d", "-", "a", "p", "i" >>

EmptyKey == << >>

RepoKeys ==
    { GuidKey, UpperKey, NoDashKey, ShortKey, LongKey, NotHexKey, NameKey, CaseKey,
      EmptyKey }

(* a repository may be named like a GUID or like an overlong one *)
RepoNames == { NameKey, CaseKey, LongKey, GuidKey }

RepoIds == { UpperKey, NoDashKey }

RepoShapes == { [ name |-> n, id |-> i ] : n \in RepoNames, i \in RepoIds }

RepoStatuses == { 200, 404, 500 }

(* the listing answers with a status and, when it succeeds, with repositories *)
InitRepositories ==
    \/ \E repos \in SeqsUpTo(RepoShapes, MaxRepos) :
          repositories = [ status |-> 200, value |-> repos ]
    \/ \E st \in RepoStatuses \ { 200 } :
          repositories = [ status |-> st, value |-> << >> ]

InitResolve ==
    /\ upstream = Upstream(DefaultIterations, DefaultChanges, DefaultBlobs,
                           DefaultThreads, "none")
    /\ InitRepositories
    /\ service = DefaultService
    /\ InitLocals

(* resolve_repo_id(repo_key) up to its return or its request *)
ResolveRepoId(key) ==
    /\ pc = "idle"
    /\ repo_key' = Some(key)
    /\ IF IsGuid(key)
       THEN /\ resolved' = Some(key)
            /\ outcome' = "ok"
            /\ pc' = "resolved"
            /\ UNCHANGED requests
       ELSE /\ requests' = Append(requests, RepositoriesRequest)
            /\ pc' = "repositories"
            /\ UNCHANGED << resolved, outcome >>
    /\ UNCHANGED << upstream, repositories, first, pr_id, returned, iteration_id,
                    entries, idx, cur, unified_parts, diff_text, result >>
    /\ UNCHANGED << service, args, payloads >>

(* the repository listing has answered: raise_for_status and the search *)
RepositoriesReturn ==
    /\ pc = "repositories"
    /\ returned' = returned + 1
    /\ IF RaisesForStatus(repositories.status)
       THEN /\ outcome' = "HTTPStatusError"
            /\ pc' = "resolve_error"
            /\ UNCHANGED resolved
       ELSE LET found == FindRepo(repositories.value, Val(repo_key))
            IN  IF found # None
                THEN /\ resolved' = found
                     /\ outcome' = "ok"
                     /\ pc' = "resolved"
                ELSE /\ outcome' = "RuntimeError"
                     /\ pc' = "resolve_error"
                     /\ UNCHANGED resolved
    /\ UNCHANGED << upstream, repositories, first, repo_key, pr_id, requests,
                    iteration_id, entries, idx, cur, unified_parts, diff_text, result >>
    /\ UNCHANGED << service, args, payloads >>

(* the caller has the id or the exception *)
ResolveReturn ==
    /\ pc \in { "resolved", "resolve_error" }
    /\ ResetLocals
    /\ repo_key' = None
    /\ resolved' = None
    /\ UNCHANGED << upstream, repositories, first, service, args, payloads >>

NextResolve ==
    \/ \E key \in RepoKeys : ResolveRepoId(key)
    \/ RepositoriesReturn
    \/ ResolveReturn

SpecResolve == InitResolve /\ [][NextResolve]_vars

----------------------------------------------------------------------------
(* Tools that write: the request with a body, and the return of a tool *)

(* client.post(url, json=payload) and client.patch(url, json=payload) on a
   resource of the repository *)
WriteRequest(method, scope, resource, pr) ==
    [ method |-> method, scope |-> scope, resource |-> resource, repo |-> REPO,
      pr |-> pr, iteration |-> None, object |-> None ]

(* the caller has the value or the exception of a tool other than
   get_pull_request_full_diff and resolve_repo_id *)
ToolReturn ==
    /\ pc \in { "comment_done", "comment_error", "branches_done", "branches_error",
               "create_done", "create_error", "link_done", "link_error" }
    /\ ResetLocals
    /\ args' = None
    /\ payloads' = << >>
    /\ UNCHANGED << upstream, service, first, repositories, repo_key, resolved >>

----------------------------------------------------------------------------
(* add_pull_request_comment *)

MaxPosted == 2

CommentTexts == { "fix this", "" }
FilePaths == { None, Some("/src/a.py") }
LineNumbers == { None, Some(0), Some(5) }

(* faulty variant: `if file_path and line`, which takes line 0 for omitted *)
ThreadContextTruthy(file_path, line) ==
    IF Truthy(file_path) /\ line # None /\ line # Some(0)
    THEN Some([ filePath |-> Val(file_path),
                rightFileStart |-> [ line |-> Val(line), offset |-> 1 ],
                rightFileEnd |-> [ line |-> Val(line), offset |-> 1 ] ])
    ELSE None

(* thread_context: set if file_path is not None and line is not None *)
ThreadContextOf(file_path, line) ==
    IF file_path # None /\ line # None
    THEN Some([ filePath |-> Val(file_path),
                rightFileStart |-> [ line |-> Val(line), offset |-> 1 ],
                rightFileEnd |-> [ line |-> Val(line), offset |-> 1 ] ])
    ELSE None

(* faulty variant: the text of the comment is not put into the payload *)
CommentPayloadBlank(comment, thread_context) ==
    IF thread_context # None
    THEN [ comments |-> << [ parentCommentId |-> 0, content |-> "", commentType |-> 1 ] >>,
           status |-> 1, threadContext |-> Val(thread_context) ]
    ELSE [ comments |-> << [ parentCommentId |-> 0, content |-> "", commentType |-> 1 ] >>,
           status |-> 1 ]

(* payload, with payload["threadContext"] only if thread_context is not None *)
CommentPayload(comment, thread_context) ==
    IF thread_context # None
    THEN [ comments |-> << [ parentCommentId |-> 0, content |-> comment, commentType |-> 1 ] >>,
           status |-> 1, threadContext |-> Val(thread_context) ]
    ELSE [ comments |-> << [ parentCommentId |-> 0, content |-> comment, commentType |-> 1 ] >>,
           status |-> 1 ]

ThreadsPost(pr) == WriteRequest("POST", "org", "threads", Some(pr))

(* the service keeps a posted thread as it was sent, and numbers it and its
   comments; what was not sent is absent when the thread is listed *)
StoredThread(payload, id) ==
    [ id |-> Some(id),
      status |-> Some(payload.status),
      threadContext |->
          IF "threadContext" \in DOMAIN payload
          THEN Context(Some(payload.threadContext.filePath),
                       Start(Some(payload.threadContext.rightFileStart.line)), None)
          ELSE None,
      comments |->
          [ j \in 1..Len(payload.comments) |->
              [ id |-> Some(j), content |-> Some(payload.comments[j].content),
                author |-> None ] ] ]

(* f"Comment posted in thread id {thread_id}" *)
PostedText(thread_id) == << "Comment posted in thread id " >> \o IntToStr(thread_id)

(* add_pull_request_comment(REPO, pr, comment, file_path, line) up to its POST *)
AddPullRequestComment(pr, comment, file_path, line) ==
    /\ pc = "idle"
    /\ Len(service.posted) < MaxPosted
    /\ args' = Some([ pr |-> pr, comment |-> comment, file_path |-> file_path,
                      line |-> line ])
    /\ payloads' = << CommentPayload(comment, ThreadContextOf(file_path, line)) >>
    /\ requests' = << ThreadsPost(pr) >>
    /\ returned' = 0
    /\ pc' = "post_thread"
    /\ UNCHANGED << upstream, service, first, repositories, repo_key, resolved, pr_id,
                    iteration_id, entries, idx, cur, unified_parts, diff_text, result,
                    outcome >>

(* the POST has returned: raise_for_status, then the text with the thread id *)
ThreadPostReturn ==
    /\ pc = "post_thread"
    /\ returned' = returned + 1
    /\ IF RaisesForStatus(service.post_status)
       THEN /\ outcome' = "HTTPStatusError"
            /\ pc' = "comment_error"
            /\ UNCHANGED << service, result >>
       ELSE LET id == 100 + Len(service.posted)
            IN  /\ service' =
                       [ service EXCEPT !.posted =
                           Append(@, [ pr |-> Val(args).pr,
                                       thread |-> StoredThread(payloads[1], id),
                                       call |-> Val(args) ]) ]
                /\ result' = Some(PostedText(id))
                /\ outcome' = "ok"
                /\ pc' = "comment_done"
    /\ UNCHANGED << upstream, first, repositories, repo_key, resolved, args, payloads,
                    pr_id, requests, iteration_id, entries, idx, cur, unified_parts,
                    diff_text >>

PostStatuses == { 200, 500 }

ThreadsBefore == { << >>, NumberThreads(<< [ threadContext |-> DefaultAnchor,
                                             status |-> Some("active"),
                                             comments |-> DefaultComments ] >>) }

InitComment ==
    /\ \E ts \in ThreadsBefore :
          upstream = Upstream(DefaultIterations, DefaultChanges, DefaultBlobs, ts, "none")
    /\ repositories = DefaultRepositories
    /\ \E st \in PostStatuses : service = [ DefaultService EXCEPT !.post_status = st ]
    /\ InitLocals

(* comments are written and the pull requests are read, in any order *)
NextComment ==
    \/ \E pr \in PrIds, comment \in CommentTexts, file_path \in FilePaths,
          line \in LineNumbers : AddPullRequestComment(pr, comment, file_path, line)
    \/ ThreadPostReturn
    \/ ToolReturn
    \/ \E pr \in PrIds : Invoke(pr)
    \/ IterationsReturn
    \/ ChangesReturn
    \/ ForChange
    \/ OriginalBlobReturn
    \/ ModifiedBlobReturn
    \/ ThreadsReturn
    \/ Return

SpecComment == InitComment /\ [][NextComment]_vars

----------------------------------------------------------------------------
(* list_branches and create_pull_request.  A ref name, a branch name and a
   filter are sequences of characters. *)

MaxRefs == 2

UpperChars ==
    << "A", "B", "C", "D", "E", "F", "G", "H", "I", "J", "K", "L", "M",
       "N", "O", "P", "Q", "R", "S", "T", "U", "V", "W", "X", "Y", "Z" >>

LowerChars ==
    << "a", "b", "c", "d", "e", "f", "g", "h", "i", "j", "k", "l", "m",
       "n", "o", "p", "q", "r", "s", "t", "u", "v", "w", "x", "y", "z" >>

(* str.lower() *)
LowerChar(c) ==
    IF \E i \in 1..Len(UpperChars) : UpperChars[i] = c
    THEN LowerChars[CHOOSE i \in 1..Len(UpperChars) : UpperChars[i] = c]
    ELSE c

Lower(s) == [ i \in 1..Len(s) |-> LowerChar(s[i]) ]

(* str.startswith(prefix) *)
StartsWith(s, prefix) ==
    /\ Len(prefix) <= Len(s)
    /\ SubSeq(s, 1, Len(prefix)) = prefix

(* sub in s *)
Contains(s, sub) ==
    \E i \in 0..(Len(s) - Len(sub)) : SubSeq(s, i + 1, i + Len(sub)) = sub

(* s.replace(old, ""): every occurrence of old, from the left *)
RECURSIVE Remove(_, _)
Remove(s, old) ==
    IF Len(s) < Len(old) \/ s = << >> THEN s
    ELSE IF StartsWith(s, old) THEN Remove(SubSeq(s, Len(old) + 1, Len(s)), old)
    ELSE << Head(s) >> \o Remove(Tail(s), old)

(* "refs/" *)
RefsPrefix ==
    << "r", "e", "f", "s", "/" >>

(* "refs/heads/" *)
HeadsPrefix ==
    << "r", "e", "f", "s", "/", "h", "e", "a", "d", "s", "/" >>

(* short_name: full_name with "refs/heads/" replaced by "" when it starts with it *)
ShortName(full_name) ==
    IF StartsWith(full_name, HeadsPrefix) THEN Remove(full_name, HeadsPrefix)
    ELSE full_name

(* ref.get("name", "") *)
FullName(ref) == IF ref.name = None THEN << >> ELSE Val(ref.name)

(* `if filter_name and filter_name.lower() not in short_name.lower(): continue` *)
Skipped(filter_name, short_name) ==
    /\ filter_name # None
    /\ Val(filter_name) # << >>
    /\ ~Contains(Lower(short_name), Lower(Val(filter_name)))

BranchRecord(ref) ==
    [ name |-> ShortName(FullName(ref)), fullName |-> FullName(ref),
      objectId |-> ref.objectId ]

(* the loop `for ref in refs` *)
RECURSIVE Branches(_, _)
Branches(refs, filter_name) ==
    IF refs = << >> THEN << >>
    ELSE (IF Skipped(filter_name, ShortName(FullName(Head(refs)))) THEN << >>
          ELSE << BranchRecord(Head(refs)) >>)
         \o Branches(Tail(refs), filter_name)

(* faulty variant: only names under refs/heads/ are taken for full refs *)
NormalizeBranchHeads(branch) ==
    IF ~StartsWith(branch, HeadsPrefix) THEN HeadsPrefix \o branch ELSE branch

(* `if not branch.startswith("refs/"): branch = f"refs/heads/{branch}"` *)
NormalizeBranch(branch) ==
    IF ~StartsWith(branch, RefsPrefix) THEN HeadsPrefix \o branch ELSE branch

(* payload of create_pull_request, without description, draft flag and reviewers *)
PullRequestPayload(source_branch, target_branch, title) ==
    [ sourceRefName |-> NormalizeBranch(source_branch),
      targetRefName |-> NormalizeBranch(target_branch),
      title |-> title ]

RefsRequest == Request("org", "refs", None, None, None)

PullRequestsPost == WriteRequest("POST", "org", "pullrequests", None)

(* "main" *)
MainName ==
    << "m", "a", "i", "n" >>

(* "fx/a" *)
FxName ==
    << "f", "x", "/", "a" >>

(* "Fx/b" *)
UpperFxName ==
    << "F", "x", "/", "b" >>

(* "old/fx/c" *)
OldFxName ==
    << "o", "l", "d", "/", "f", "x", "/", "c" >>

(* "a/refs/heads/b" *)
NestedName ==
    << "a", "/", "r", "e", "f", "s", "/", "h", "e", "a", "d", "s", "/", "b" >>

(* "refs/x" *)
RefsName ==
    << "r", "e", "f", "s", "/", "x" >>

BranchNames == { MainName, FxName, UpperFxName, OldFxName, NestedName, RefsName }

(* the refs the service lists for filter=heads/: branches, and a ref without a name *)
RefShapes ==
    { [ name |-> Some(HeadsPrefix \o n), objectId |-> Some("c1") ] : n \in BranchNames }
    \cup { [ name |-> None, objectId |-> Some("c2") ] }

(* no filter, the empty filter, "fx/", "FX/" and "zz" *)
Filters ==
    { None, Some(<< >>), Some(<< "f", "x", "/" >>), Some(<< "F", "X", "/" >>),
      Some(<< "z", "z" >>) }

(* what a caller passes for a branch: a short name or a full ref *)
BranchArgs ==
    { MainName, HeadsPrefix \o MainName, RefsName, HeadsPrefix \o RefsName, NestedName,
      HeadsPrefix \o NestedName }

ListStatuses == { 200, 500 }

InitBranches ==
    /\ upstream = Upstream(DefaultIterations, DefaultChanges, DefaultBlobs,
                           DefaultThreads, "none")
    /\ repositories = DefaultRepositories
    /\ \E refs \in SeqsUpTo(RefShapes, MaxRefs), st \in ListStatuses :
          service = [ DefaultService EXCEPT !.refs = refs, !.refs_status = st,
                                            !.post_status = st ]
    /\ InitLocals

(* list_branches(REPO, filter_name) up to its request *)
ListBranches(filter_name) ==
    /\ pc = "idle"
    /\ args' = Some([ filter_name |-> filter_name ])
    /\ requests' = << RefsRequest >>
    /\ returned' = 0
    /\ pc' = "refs"
    /\ UNCHANGED << upstream, service, first, repositories, repo_key, resolved, payloads,
                    pr_id, iteration_id, entries, idx, cur, unified_parts, diff_text,
                    result, outcome >>

(* the ref listing has returned: raise_for_status, then the loop *)
RefsReturn ==
    /\ pc = "refs"
    /\ returned' = returned + 1
    /\ IF RaisesForStatus(service.refs_status)
       THEN /\ outcome' = "HTTPStatusError"
            /\ pc' = "branches_error"
            /\ UNCHANGED result
       ELSE /\ result' = Some(Branches(service.refs, Val(args).filter_name))
            /\ outcome' = "ok"
            /\ pc' = "branches_done"
    /\ UNCHANGED << upstream, service, first, repositories, repo_key, resolved, args,
                    payloads, pr_id, requests, iteration_id, entries, idx, cur,
                    unified_parts, diff_text >>

(* create_pull_request(REPO, source_branch, target_branch, title) up to its POST *)
CreatePullRequest(source_branch, target_branch) ==
    /\ pc = "idle"
    /\ args' = Some([ source_branch |-> source_branch, target_branch |-> target_branch ])
    /\ payloads' = << PullRequestPayload(source_branch, target_branch, "title") >>
    /\ requests' = << PullRequestsPost >>
    /\ returned' = 0
    /\ pc' = "post_pr"
    /\ UNCHANGED << upstream, service, first, repositories, repo_key, resolved, pr_id,
                    iteration_id, entries, idx, cur, unified_parts, diff_text, result,
                    outcome >>

(* the POST has returned: raise_for_status, then the details of the response,
   which repeats the refs that were sent *)
PullRequestPostReturn ==
    /\ pc = "post_pr"
    /\ returned' = returned + 1
    /\ IF RaisesForStatus(service.post_status)
       THEN /\ outcome' = "HTTPStatusError"
            /\ pc' = "create_error"
            /\ UNCHANGED result
       ELSE /\ result' = Some([ id |-> Some(1), title |-> Some(payloads[1].title),
                                status |-> Some("active"),
                                sourceBranch |-> Some(payloads[1].sourceRefName),
                                targetBranch |-> Some(payloads[1].targetRefName) ])
            /\ outcome' = "ok"
            /\ pc' = "create_done"
    /\ UNCHANGED << upstream, service, first, repositories, repo_key, resolved, args,
                    payloads, pr_id, requests, iteration_id, entries, idx, cur,
                    unified_parts, diff_text >>

NextBranches ==
    \/ \E filter_name \in Filters : ListBranches(filter_name)
    \/ RefsReturn
    \/ \E source_branch \in BranchArgs, target_branch \in BranchArgs :
          CreatePullRequest(source_branch, target_branch)
    \/ PullRequestPostReturn
    \/ ToolReturn

SpecBranches == InitBranches /\ [][NextBranches]_vars

----------------------------------------------------------------------------
(* link_pr_to_work_item *)

MaxLinks == 2

WorkItemIds == { 456, 457 }

(* the answers of the project lookup: two projects with their ids, an unknown
   project, and an answer without an id *)
ProjectAnswers ==
    { [ status |-> 200, id |-> Some("p-1") ], [ status |-> 200, id |-> Some("p-2") ],
      UnknownProject, [ status |-> 200, id |-> None ] }

PatchStatuses == { 200, 404 }

ProjectRequest(project) ==
    [ method |-> "GET", scope |-> "org", resource |-> "project", project |-> project ]

WorkItemPatch(project, work_item_id) ==
    [ method |-> "PATCH", scope |-> "project", resource |-> "workitem",
      project |-> project, work_item |-> work_item_id ]

(* faulty variant: the status of the project lookup is not looked at *)
ProjectIdNoCheck(resp) == [ raised |-> "none", id |-> resp.id ]

(* project_resp.raise_for_status(); project_id = project_resp.json().get("id") *)
ProjectId(resp) ==
    IF RaisesForStatus(resp.status) THEN [ raised |-> "HTTPStatusError", id |-> None ]
    ELSE [ raised |-> "none", id |-> resp.id ]

(* faulty variant: the project id and the repository id change places *)
ArtifactUriSwapped(project_id, repo_id, pr) ==
    << "vstfs:///Git/PullRequestId/", repo_id, "%2F",
       IF project_id = None THEN "None" ELSE Val(project_id), "%2F" >> \o IntToStr(pr)

(* f"vstfs:///Git/PullRequestId/{project_id}%2F{repo_id}%2F{pr_id}" *)
ArtifactUri(project_id, repo_id, pr) ==
    << "vstfs:///Git/PullRequestId/",
       IF project_id = None THEN "None" ELSE Val(project_id), "%2F", repo_id, "%2F" >>
    \o IntToStr(pr)

(* the JSON Patch document *)
LinkPayload(artifact_uri) ==
    << [ op |-> "add", path |-> "/relations/-",
         value |-> [ rel |-> "ArtifactLink", url |-> artifact_uri,
                     attributes |-> [ name |-> "Pull Request" ] ] ] >>

LinkResult(pr, work_item_id) ==
    [ success |-> TRUE, workItemId |-> work_item_id, prId |-> pr,
      message |-> << "Successfully linked PR #" >> \o IntToStr(pr)
                  \o << " to work item #" >> \o IntToStr(work_item_id) ]

InitLink ==
    /\ upstream = Upstream(DefaultIterations, DefaultChanges, DefaultBlobs,
                           DefaultThreads, "none")
    /\ repositories = DefaultRepositories
    /\ \E ps \in [ ProjectNames -> ProjectAnswers ], st \in PatchStatuses :
          service = [ DefaultService EXCEPT !.projects = ps, !.patch_status = st ]
    /\ InitLocals

(* link_pr_to_work_item(project, REPO, pr, work_item_id) up to the project lookup *)
LinkPrToWorkItem(project, pr, work_item_id) ==
    /\ pc = "idle"
    /\ Len(service.relations) < MaxLinks
    /\ args' = Some([ project |-> project, pr |-> pr, work_item_id |-> work_item_id ])
    /\ requests' = << ProjectRequest(project) >>
    /\ returned' = 0
    /\ pc' = "project"
    /\ UNCHANGED << upstream, service, first, repositories, repo_key, resolved, payloads,
                    pr_id, iteration_id, entries, idx, cur, unified_parts, diff_text,
                    result, outcome >>

(* the project lookup has returned: the id, the artifact URI, and the PATCH *)
ProjectReturn ==
    /\ pc = "project"
    /\ returned' = returned + 1
    /\ LET a == Val(args)
           looked == ProjectId(service.projects[a.project])
       IN  IF looked.raised # "none"
           THEN /\ outcome' = looked.raised
                /\ pc' = "link_error"
                /\ UNCHANGED << requests, payloads >>
           ELSE /\ payloads' = << LinkPayload(ArtifactUri(looked.id, REPO, a.pr)) >>
                /\ requests' = Append(requests, WorkItemPatch(a.project, a.work_item_id))
                /\ pc' = "patch_workitem"
                /\ UNCHANGED outcome
    /\ UNCHANGED << upstream, service, first, repositories, repo_key, resolved, args,
                    pr_id, iteration_id, entries, idx, cur, unified_parts, diff_text,
                    result >>

(* the PATCH has returned: raise_for_status, then the record; a PATCH that
   succeeds has added the relations of its document to the work item *)
PatchReturn ==
    /\ pc = "patch_workitem"
    /\ returned' = returned + 1
    /\ LET a == Val(args)
       IN  IF RaisesForStatus(service.patch_status)
           THEN /\ outcome' = "HTTPStatusError"
                /\ pc' = "link_error"
                /\ UNCHANGED << service, result >>
           ELSE /\ service' =
                       [ service EXCEPT !.relations =
                           @ \o [ i \in 1..Len(payloads[1]) |->
                                    [ work_item |-> a.work_item_id,
                                      rel |-> payloads[1][i].value.rel,
                                      url |-> payloads[1][i].value.url ] ] ]
                /\ result' = Some(LinkResult(a.pr, a.work_item_id))
                /\ outcome' = "ok"
                /\ pc' = "link_done"
    /\ UNCHANGED << upstream, first, repositories, repo_key, resolved, args, payloads,
                    pr_id, requests, iteration_id, entries, idx, cur, unified_parts,
                    diff_text >>

NextLink ==
    \/ \E project \in ProjectNames, pr \in PrIds, work_item_id \in WorkItemIds :
          LinkPrToWorkItem(project, pr, work_item_id)
    \/ ProjectReturn
    \/ PatchReturn
    \/ ToolReturn

SpecLink == InitLink /\ [][NextLink]_vars

----------------------------------------------------------------------------
(* Reading the state for the properties *)

PastIterations == pc \notin { "idle", "iterations" }

RequestsOf(resource) == SelectSeq(requests, LAMBDA r : r.resource = resource)

(* the change list as the upstream holds it: under either key, or under none *)
UpstreamHasNoEntries ==
    /\ upstream.changes.changeEntries \in { None, Some(<< >>) }
    /\ upstream.changes.changes \in { None, Some(<< >>) }

----------------------------------------------------------------------------
(* C1: whenever get_latest_iteration_id has returned an id, the iteration listing
   is not empty and the id is that of its last element, whatever the order of
   the ids; and a non-empty listing fetched without error always yields an id,
   which the change-list request then names. *)
C1_LatestIterationIsLast ==
    LET its == upstream.iterations
    IN  /\ iteration_id # None =>
              /\ Len(its) >= 1
              /\ Val(iteration_id) = its[Len(its)].id
              /\ Len(requests) >= 2
              /\ requests[2].resource = "changes"
              /\ requests[2].iteration = Some(its[Len(its)].id)
        /\ (PastIterations /\ Len(its) >= 1 /\ upstream.fault # "iterations") =>
              iteration_id # None

(* C1 witness: the listing is <<7, 3>>, the resolver has returned 3, not the maximum 7 *)
C1_Witness ==
    /\ upstream.iterations = << [ id |-> 7 ], [ id |-> 3 ] >>
    /\ pc = "changes"
    /\ iteration_id = Some(3)

(* C2: when the iteration listing is empty, the invocation ends in the error
   outcome RuntimeError("No iterations found ..."), returns no result, and has
   issued the iteration request only: no change-list, blob or thread request. *)
C2_EmptyListingFails ==
    (upstream.iterations = << >> /\ upstream.fault # "iterations") =>
        /\ result = None
        /\ iteration_id = None
        /\ Len(requests) <= 1
        /\ \A i \in 1..Len(requests) : requests[i].resource = "iterations"
        /\ PastIterations => (pc = "error" /\ outcome = "RuntimeError")

(* C2 witness: the invocation has failed on an empty listing *)
C2_Witness ==
    /\ upstream.iterations = << >>
    /\ pc = "error"
    /\ outcome = "RuntimeError"
    /\ Len(requests) = 1

(* the sentence for the pull requests of the model, written out *)
SentenceFor(pr) ==
    CASE pr = 42 -> << "No change entries found for PR #", "4", "2", "." >>
      [] pr = 105 -> << "No change entries found for PR #", "1", "0", "5", "." >>

(* C3: when the change list has no entries, the invocation issues no blob
   request, and the diff it assembles and returns is exactly the sentence
   "No change entries found for PR #<pr_id>." *)
C3_NoChangesSentence ==
    UpstreamHasNoEntries =>
        /\ RequestsOf("blob") = << >>
        /\ unified_parts = << >>
        /\ diff_text # None => Val(diff_text) = SentenceFor(pr_id)
        /\ result # None => Val(result).diff = SentenceFor(pr_id)
        /\ pc = "threads" => diff_text # None

(* C3 witness: pull request 105 with an empty change list has returned the sentence *)
C3_Witness ==
    /\ UpstreamHasNoEntries
    /\ pc = "done"
    /\ pr_id = 105
    /\ result # None
    /\ Val(result).diff = << "No change entries found for PR #", "1", "0", "5", "." >>

----------------------------------------------------------------------------
(* Reading the blocks and the change list for the properties *)

(* the entries the upstream lists, under whichever key holds them *)
UpstreamEntries ==
    IF upstream.changes.changeEntries \notin { None, Some(<< >>) }
    THEN upstream.changes.changeEntries[1]
    ELSE IF upstream.changes.changes \notin { None, Some(<< >>) }
    THEN upstream.changes.changes[1]
    ELSE << >>

(* the entries that are JSON objects, in upstream order *)
UpstreamRecords == SelectSeq(UpstreamEntries, LAMBDA e : e.isDict)

EntryOriginal(e) == IF e.item = None THEN None ELSE e.item[1].originalObjectId
EntryNew(e) == IF e.item = None THEN None ELSE e.item[1].objectId
EntryPath(e) == IF e.item = None THEN None ELSE e.item[1].path
Present(h) == h # None

FirstIndex(seq, tok) ==
    CHOOSE i \in 1..Len(seq) : seq[i] = tok /\ \A j \in 1..(i - 1) : seq[j] # tok

(* the text between the ORIGINAL line and the line break before the MODIFIED line *)
OriginalSection(block) ==
    SubSeq(block, FirstIndex(block, "--- ORIGINAL ---") + 2,
                  FirstIndex(block, "--- MODIFIED ---") - 2)

(* the text between the MODIFIED line and the line break that ends the block *)
ModifiedSection(block) ==
    SubSeq(block, FirstIndex(block, "--- MODIFIED ---") + 2, Len(block) - 1)

IsPrefix(a, b) == Len(a) <= Len(b) /\ SubSeq(b, 1, Len(a)) = a

(* the hashes a run must fetch, in order: per record the original side, then the new side *)
RECURSIVE ExpectedFetches(_)
ExpectedFetches(es) ==
    IF es = << >> THEN << >>
    ELSE (IF Present(EntryOriginal(Head(es))) THEN << EntryOriginal(Head(es))[1] >> ELSE << >>)
         \o (IF Present(EntryNew(Head(es))) THEN << EntryNew(Head(es))[1] >> ELSE << >>)
         \o ExpectedFetches(Tail(es))

FetchedHashes == [ i \in 1..Len(RequestsOf("blob")) |-> RequestsOf("blob")[i].object[1] ]

LoopOver == pc \in { "threads", "done" }

----------------------------------------------------------------------------
(* C4 as stated: for every file change with both hashes, the ORIGINAL section of
   its block is non-empty and equal to the text fetched for the original hash,
   and the MODIFIED section is equal to the text fetched for the new hash. *)
C4_AsStated ==
    \A k \in 1..Len(unified_parts) :
        LET e == UpstreamRecords[k]
            b == unified_parts[k]
        IN  (Present(EntryOriginal(e)) /\ Present(EntryNew(e))) =>
                /\ OriginalSection(b) # << >>
                /\ OriginalSection(b) = upstream.blobs[EntryOriginal(e)[1]].text
                /\ ModifiedSection(b) = upstream.blobs[EntryNew(e)[1]].text

(* C4 amended: for every file change with both hashes whose block is assembled,
   each section equals the text fetched for its hash when that fetch answered
   with status 200 (so it is empty for an empty file), and is empty when the
   fetch answered with any other status; and every such change gets its block
   unless a request fails outright. *)
C4_SectionsAreFetchedTexts ==
    /\ \A k \in 1..Len(unified_parts) :
        LET e == UpstreamRecords[k]
            b == unified_parts[k]
            ro == upstream.blobs[EntryOriginal(e)[1]]
            rn == upstream.blobs[EntryNew(e)[1]]
        IN  (Present(EntryOriginal(e)) /\ Present(EntryNew(e))) =>
                /\ ro.status = 200 => OriginalSection(b) = ro.text
                /\ ro.status # 200 => OriginalSection(b) = << >>
                /\ rn.status = 200 => ModifiedSection(b) = rn.text
                /\ rn.status # 200 => ModifiedSection(b) = << >>
    /\ LoopOver => Len(unified_parts) = Len(UpstreamRecords)

(* C4 witness: a finished run holds a block of a change with both hashes whose
   sections are the two fetched texts *)
C4_Witness ==
    /\ pc = "done"
    /\ \E k \in 1..Len(unified_parts) :
        /\ Present(EntryOriginal(UpstreamRecords[k]))
        /\ Present(EntryNew(UpstreamRecords[k]))
        /\ OriginalSection(unified_parts[k]) = << "old" >>
        /\ ModifiedSection(unified_parts[k]) = << "new" >>

(* C5: a side whose hash is absent has an empty section and no blob request:
   the blob requests of a run are exactly the present hashes of the records, in
   order, so a record with neither hash triggers no request at all. *)
C5_AbsentHashEmptySection ==
    /\ \A k \in 1..Len(unified_parts) :
        LET e == UpstreamRecords[k]
            b == unified_parts[k]
        IN  /\ ~Present(EntryOriginal(e)) => OriginalSection(b) = << >>
            /\ ~Present(EntryNew(e)) => ModifiedSection(b) = << >>
    /\ IsPrefix(FetchedHashes, ExpectedFetches(UpstreamRecords))
    /\ LoopOver => FetchedHashes = ExpectedFetches(UpstreamRecords)

(* C5 witness: a finished run over an add and a record with neither hash: one
   request, the add has an empty ORIGINAL and a non-empty MODIFIED section, the
   other record has both sections empty *)
C5_Witness ==
    /\ pc = "done"
    /\ Len(unified_parts) = 2
    /\ Len(RequestsOf("blob")) = 1
    /\ \E k \in 1..2 :
        /\ ~Present(EntryOriginal(UpstreamRecords[k]))
        /\ Present(EntryNew(UpstreamRecords[k]))
        /\ OriginalSection(unified_parts[k]) = << >>
        /\ ModifiedSection(unified_parts[k]) # << >>
    /\ \E k \in 1..2 :
        /\ ~Present(EntryOriginal(UpstreamRecords[k]))
        /\ ~Present(EntryNew(UpstreamRecords[k]))
        /\ OriginalSection(unified_parts[k]) = << >>
        /\ ModifiedSection(unified_parts[k]) = << >>

----------------------------------------------------------------------------
(* Reading the threads and the returned comments for the properties *)

Returned == result # None
Comments == result[1].comments

ThreadWithId(id) ==
    CHOOSE t \in { upstream.threads[i] : i \in 1..Len(upstream.threads) } : t.id = id

RightLine(t) ==
    IF t.threadContext = None THEN None
    ELSE IF t.threadContext[1].rightFileStart = None THEN None
    ELSE t.threadContext[1].rightFileStart[1].line

LeftLine(t) ==
    IF t.threadContext = None THEN None
    ELSE IF t.threadContext[1].leftFileStart = None THEN None
    ELSE t.threadContext[1].leftFileStart[1].line

RecordsOfThread(t) == SelectSeq(Comments, LAMBDA rec : rec.threadId = t.id)

RECURSIVE CommentsBefore(_)
(* the number of comments in the first i threads of the upstream listing *)
CommentsBefore(i) ==
    IF i = 0 THEN 0 ELSE CommentsBefore(i - 1) + Len(upstream.threads[i].comments)

----------------------------------------------------------------------------
(* C6: the line of every returned comment is the right line of its thread when
   that is present (also next to a left line, also when it is 0), the left line
   when only that is present, and null when neither is or the thread has no
   threadContext. *)
C6_LinePrefersRight ==
    Returned =>
        \A i \in 1..Len(Comments) :
            LET t == ThreadWithId(Comments[i].threadId)
            IN  /\ RightLine(t) # None => Comments[i].line = RightLine(t)
                /\ (RightLine(t) = None /\ LeftLine(t) # None) => Comments[i].line = LeftLine(t)
                /\ (RightLine(t) = None /\ LeftLine(t) = None) => Comments[i].line = None

(* C6 witness: a returned comment of a thread with right line 0 and left line 3 has line 0 *)
C6_Witness ==
    /\ Returned
    /\ \E i \in 1..Len(Comments) :
        /\ RightLine(ThreadWithId(Comments[i].threadId)) = Some(0)
        /\ LeftLine(ThreadWithId(Comments[i].threadId)) = Some(3)
        /\ Comments[i].line = Some(0)

(* C7: a thread with N comments contributes exactly N records; they all carry
   the file, status and id of the thread and one and the same line, and the
   j-th of them carries the content, author name and id of the j-th comment. *)
C7_OneRecordPerComment ==
    Returned =>
        \A n \in 1..Len(upstream.threads) :
            LET t == upstream.threads[n]
                recs == RecordsOfThread(t)
            IN  /\ Len(recs) = Len(t.comments)
                /\ \A j \in 1..Len(recs) :
                    /\ recs[j].file = (IF t.threadContext = None THEN None
                                       ELSE t.threadContext[1].filePath)
                    /\ recs[j].status = t.status
                    /\ recs[j].threadId = t.id
                    /\ recs[j].line = recs[1].line
                    /\ recs[j].content = t.comments[j].content
                    /\ recs[j].author = (IF t.comments[j].author = None THEN None
                                         ELSE t.comments[j].author[1].displayName)
                    /\ recs[j].commentId = t.comments[j].id

(* C7 witness: a thread with two different comments has given two records, and
   a thread without comments none *)
C7_Witness ==
    /\ Returned
    /\ Len(upstream.threads) = 2
    /\ Len(upstream.threads[1].comments) = 2
    /\ upstream.threads[2].comments = << >>
    /\ Len(Comments) = 2
    /\ Comments[1].content = Some("LGTM")
    /\ Comments[2].content = Some("nit")
    /\ Comments[1].commentId # Comments[2].commentId

(* C8: the returned comments are the comments of the threads in upstream thread
   order, each thread's in upstream comment order, none dropped, repeated or
   filtered by status: the list is as long as all threads' comments together,
   and the record at place (comments before thread n) + j is comment j of
   thread n. *)
C8_CommentsInUpstreamOrder ==
    Returned =>
        /\ Len(Comments) = CommentsBefore(Len(upstream.threads))
        /\ \A n \in 1..Len(upstream.threads) :
            \A j \in 1..Len(upstream.threads[n].comments) :
                LET rec == Comments[CommentsBefore(n - 1) + j]
                IN  /\ rec.threadId = upstream.threads[n].id
                    /\ rec.commentId = upstream.threads[n].comments[j].id
                    /\ rec.content = upstream.threads[n].comments[j].content

(* C8 witness: a resolved thread followed by a thread without status, both returned in order *)
C8_Witness ==
    /\ Returned
    /\ Len(upstream.threads) = 2
    /\ upstream.threads[1].status = Some("fixed")
    /\ upstream.threads[2].status = None
    /\ Len(Comments) = 2
    /\ Comments[1].threadId = Some(10)
    /\ Comments[2].threadId = Some(20)

----------------------------------------------------------------------------
(* Reading the diff text for the properties *)

Diff == result[1].diff

(* the path and the change kind a block shows for an entry *)
ShownPath(e) == IF EntryPath(e) = None THEN "<unknown-path>" ELSE EntryPath(e)[1]
ShownKind(e) == IF e.changeType = None THEN "?" ELSE e.changeType[1]

(* the three lines that open the block of an entry *)
HeaderOf(e) ==
    << "--- a", ShownPath(e), "\n",
       "+++ b", ShownPath(e), "\n",
       "@@ ", ShownKind(e), " ", ShownPath(e), " @@", "\n" >>

RECURSIVE BlockStart(_)
(* where block k starts in the diff text: the blocks before it, and a line
   break after each of them *)
BlockStart(k) ==
    IF k = 1 THEN 1 ELSE BlockStart(k - 1) + Len(unified_parts[k - 1]) + 1

(* the diff text holds, from BlockStart(k) on, the header of entry e *)
DiffShowsAt(k, e) ==
    /\ BlockStart(k) + Len(HeaderOf(e)) - 1 <= Len(Diff)
    /\ SubSeq(Diff, BlockStart(k), BlockStart(k) + Len(HeaderOf(e)) - 1) = HeaderOf(e)
    /\ SubSeq(Diff, BlockStart(k), BlockStart(k) + Len(unified_parts[k]) - 1) = unified_parts[k]

----------------------------------------------------------------------------
(* C9 as stated: the diff of a finished run holds one block per entry of the
   upstream listing, the k-th block being that of the k-th entry. *)
C9_AsStated ==
    (pc = "done" /\ UpstreamEntries # << >>) =>
        /\ Len(unified_parts) = Len(UpstreamEntries)
        /\ \A k \in 1..Len(unified_parts) : DiffShowsAt(k, UpstreamEntries[k])

(* C9 amended: the diff of a finished run holds one block per entry that is a
   JSON object (an element that is not an object is skipped), the k-th block
   being that of the k-th such entry and nothing else being in the text; and
   the blob requests of a run are issued in the order of those entries, the
   original side of an entry before its new side. *)
C9_BlocksInUpstreamOrder ==
    /\ (pc = "done" /\ UpstreamEntries # << >>) =>
        /\ Len(unified_parts) = Len(UpstreamRecords)
        /\ \A k \in 1..Len(unified_parts) : DiffShowsAt(k, UpstreamRecords[k])
        /\ Len(Diff) = BlockStart(Len(unified_parts) + 1) - 2 \/ unified_parts = << >>
    /\ \A k \in 1..Len(unified_parts) :
        SubSeq(unified_parts[k], 1, 12) = HeaderOf(UpstreamRecords[k])
    /\ IsPrefix(FetchedHashes, ExpectedFetches(UpstreamRecords))

(* C9 witness: a finished run over an add of /b.txt followed by a delete of
   /src/a.py: two blocks in that order, h2 fetched before h1 *)
C9_Witness ==
    /\ pc = "done"
    /\ Len(UpstreamEntries) = 2
    /\ Len(unified_parts) = 2
    /\ unified_parts[1][2] = "/b.txt"
    /\ unified_parts[1][8] = "add"
    /\ unified_parts[2][2] = "/src/a.py"
    /\ unified_parts[2][8] = "delete"
    /\ FetchedHashes = << "h2", "h1" >>
    /\ Diff[BlockStart(2) + 1] = "/src/a.py"

(* the example of the specification: pull request 42 with one iteration 7, one
   edit of /src/a.py from h1 = "old" to h2 = "new", and no threads *)
ExampleUpstream ==
    [ iterations |-> << [ id |-> 7 ] >>,
      changes |->
        [ changeEntries |->
            << << [ isDict |-> TRUE,
                    item |-> << [ path |-> << "/src/a.py" >>,
                                  originalObjectId |-> << "h1" >>,
                                  objectId |-> << "h2" >> ] >>,
                    changeType |-> << "edit" >> ] >> >>,
          changes |-> << >> ],
      blobs |-> [ h1 |-> [ kind |-> "http", status |-> 200, text |-> << "old" >> ],
                  h2 |-> [ kind |-> "http", status |-> 200, text |-> << "new" >> ] ],
      threads |-> << >>,
      fault |-> "none" ]

ExampleResult ==
    [ diff |-> << "--- a", "/src/a.py", "\n",
                  "+++ b", "/src/a.py", "\n",
                  "@@ ", "edit", " ", "/src/a.py", " @@", "\n",
                  "--- ORIGINAL ---", "\n", "old", "\n",
                  "--- MODIFIED ---", "\n", "new", "\n" >>,
      comments |-> << >> ]

(* C10: every block is the line "--- a<path>", the line "+++ b<path>", the
   marker line "@@ <kind> <path> @@", the line "--- ORIGINAL ---" followed by
   the original text and a line break, and the line "--- MODIFIED ---" followed
   by the modified text and a line break, the texts being what get_blob_text
   gave for the two sides; and the example returns exactly its one block with
   ORIGINAL = old, MODIFIED = new, and no comments. *)
C10_BlockLayout ==
    /\ \A k \in 1..Len(unified_parts) :
        LET b == unified_parts[k]
            e == UpstreamRecords[k]
        IN  /\ b = HeaderOf(e)
                   \o << "--- ORIGINAL ---", "\n" >> \o OriginalSection(b) \o << "\n" >>
                   \o << "--- MODIFIED ---", "\n" >> \o ModifiedSection(b) \o << "\n" >>
            /\ (Present(EntryOriginal(e)) /\ upstream.blobs[EntryOriginal(e)[1]].status = 200) =>
                   OriginalSection(b) = upstream.blobs[EntryOriginal(e)[1]].text
            /\ (Present(EntryNew(e)) /\ upstream.blobs[EntryNew(e)[1]].status = 200) =>
                   ModifiedSection(b) = upstream.blobs[EntryNew(e)[1]].text
    /\ (upstream = ExampleUpstream /\ pc = "done") => result = << ExampleResult >>

(* C10 witness: the example has run to its end and returned the one block *)
C10_Witness ==
    /\ upstream = ExampleUpstream
    /\ pc = "done"
    /\ pr_id = 42
    /\ result = << ExampleResult >>

----------------------------------------------------------------------------
(* C11: when the iteration-list, change-list or thread-list request gets a
   non-2xx response, the invocation never returns a dictionary: it ends in
   HTTPStatusError at that request, also when the thread list fails after every
   block has been assembled. *)
C11_StructuralFailureAborts ==
    upstream.fault # "none" =>
        /\ result = None
        /\ pc # "done"
        /\ pc = "error" =>
              /\ outcome = "HTTPStatusError"
              /\ requests[Len(requests)].resource = upstream.fault
              /\ returned = Len(requests)
        /\ (upstream.fault = "iterations" /\ PastIterations) => pc = "error"
        /\ (upstream.fault = "changes" /\ Len(requests) >= 2 /\ pc # "changes") => pc = "error"
        /\ (upstream.fault = "threads" /\ RequestsOf("threads") # << >> /\ pc # "threads") =>
              pc = "error"

(* C11 witness: the thread list has failed after a block was assembled and
   joined into the diff text; nothing is returned *)
C11_Witness ==
    /\ upstream.fault = "threads"
    /\ pc = "error"
    /\ outcome = "HTTPStatusError"
    /\ unified_parts # << >>
    /\ diff_text # None
    /\ result = None

(* C12 as stated: a failing blob fetch is never surfaced: with the three list
   requests answered and a non-empty iteration listing, the invocation never
   ends in an error, and every record of the change list gets its block. *)
C12_AsStated ==
    (upstream.fault = "none" /\ upstream.iterations # << >>) =>
        /\ pc # "error"
        /\ LoopOver => Len(unified_parts) = Len(UpstreamRecords)

(* the response a side of a record was answered with *)
SideResponse(h) == upstream.blobs[h[1]]

(* C13 as stated: get_blob_text gives the empty string exactly when the hash is
   absent or the response is non-2xx, and the text of the response for every
   2xx response. *)
C13_AsStated ==
    \A k \in 1..Len(unified_parts) :
        LET e == UpstreamRecords[k]
            b == unified_parts[k]
        IN  /\ OriginalSection(b) = << >> <=>
                  (~Present(EntryOriginal(e)) \/ ~Is2xx(SideResponse(EntryOriginal(e)).status))
            /\ ModifiedSection(b) = << >> <=>
                  (~Present(EntryNew(e)) \/ ~Is2xx(SideResponse(EntryNew(e)).status))
            /\ (Present(EntryOriginal(e)) /\ Is2xx(SideResponse(EntryOriginal(e)).status)) =>
                  OriginalSection(b) = SideResponse(EntryOriginal(e)).text
            /\ (Present(EntryNew(e)) /\ Is2xx(SideResponse(EntryNew(e)).status)) =>
                  ModifiedSection(b) = SideResponse(EntryNew(e)).text

(* what get_blob_text gave for a side, read from the block: the empty string
   for an absent hash and for every status other than 200, the text of the
   response (which may be empty) for status 200 *)
SideTextIsRight(h, section) ==
    /\ ~Present(h) => section = << >>
    /\ (Present(h) /\ SideResponse(h).status # 200) => section = << >>
    /\ (Present(h) /\ SideResponse(h).status = 200) => section = SideResponse(h).text

(* C13 amended: get_blob_text gives the empty string when the hash is absent or
   the response has a status other than 200 (a 2xx status such as 203
   included), and the text of the response, empty or not, when the status is
   200. *)
C13_TextOnlyFor200 ==
    /\ \A k \in 1..Len(unified_parts) :
        /\ SideTextIsRight(EntryOriginal(UpstreamRecords[k]), OriginalSection(unified_parts[k]))
        /\ SideTextIsRight(EntryNew(UpstreamRecords[k]), ModifiedSection(unified_parts[k]))
    /\ pc = "modified_blob" => SideTextIsRight(cur.original_id, cur.original_text)

(* C13 witness: a block whose original side was answered 203 with a page and is
   empty, next to a modified side answered 200 and shown *)
C13_Witness ==
    \E k \in 1..Len(unified_parts) :
        /\ Present(EntryOriginal(UpstreamRecords[k]))
        /\ Present(EntryNew(UpstreamRecords[k]))
        /\ SideResponse(EntryOriginal(UpstreamRecords[k])).status = 203
        /\ SideResponse(EntryOriginal(UpstreamRecords[k])).text # << >>
        /\ OriginalSection(unified_parts[k]) = << >>
        /\ ModifiedSection(unified_parts[k]) = << "new" >>

----------------------------------------------------------------------------
(* Reading the request log for the properties *)

Awaiting == pc \in { "iterations", "changes", "original_blob", "modified_blob", "threads" }

ResourcesRequested == [ i \in 1..Len(requests) |-> requests[i].resource ]

RECURSIVE PresentHashCount(_)
(* the number of hashes present over the records of a change list *)
PresentHashCount(es) ==
    IF es = << >> THEN 0
    ELSE (IF EntryOriginal(Head(es)) # << >> THEN 1 ELSE 0)
         + (IF EntryNew(Head(es)) # << >> THEN 1 ELSE 0)
         + PresentHashCount(Tail(es))

----------------------------------------------------------------------------
(* C15: the requests of an invocation are issued one at a time, each after the
   one before it has returned, in the order iteration list, change list, the
   blobs (per entry the original before the modified one, entries in upstream
   order), thread list; the thread list is requested only when every blob
   request has been issued and has returned. *)
C15_RequestsInSequence ==
    /\ Len(requests) = returned + (IF Awaiting THEN 1 ELSE 0)
    /\ \A i \in 1..Len(requests) :
        /\ requests[i].resource = "iterations" <=> i = 1
        /\ requests[i].resource = "changes" <=> i = 2
        /\ requests[i].resource = "threads" => (i = Len(requests) /\ i >= 3)
        /\ requests[i].resource \in { "iterations", "changes", "blob", "threads" }
    /\ IsPrefix(FetchedHashes, ExpectedFetches(UpstreamRecords))
    /\ RequestsOf("threads") # << >> =>
        /\ FetchedHashes = ExpectedFetches(UpstreamRecords)
        /\ returned >= Len(requests) - 1

(* C15 witness: a finished run of five requests: iteration list, change list,
   original blob, modified blob, thread list, all returned *)
C15_Witness ==
    /\ pc = "done"
    /\ ResourcesRequested = << "iterations", "changes", "blob", "blob", "threads" >>
    /\ FetchedHashes = << "h1", "h2" >>
    /\ returned = 5

(* C16: every successful invocation returns a record with exactly the two
   fields diff and comments, diff being one text and comments a list of
   records; and an invocation that ends without error has returned one. *)
C16_ResultHasDiffAndComments ==
    /\ pc = "done" <=> result # None
    /\ result # None =>
        /\ DOMAIN result[1] = { "diff", "comments" }
        /\ DOMAIN result[1].diff = 1..Len(result[1].diff)
        /\ \A i \in 1..Len(result[1].diff) : result[1].diff[i] \in STRING
        /\ DOMAIN result[1].comments = 1..Len(result[1].comments)
        /\ \A i \in 1..Len(result[1].comments) :
              DOMAIN result[1].comments[i] =
                  { "file", "line", "content", "author", "status", "threadId", "commentId" }

(* C16 witness: a returned record with a non-empty diff and two comments *)
C16_Witness ==
    /\ pc = "done"
    /\ result # None
    /\ DOMAIN result[1] = { "diff", "comments" }
    /\ Len(result[1].diff) > 0
    /\ Len(result[1].comments) = 2

(* C17 as stated: the returned dictionary has the two keys unified_diff and
   comments, the diff text being stored under unified_diff. *)
C17_AsStated ==
    result # None => DOMAIN result[1] = { "unified_diff", "comments" }

(* C18: nothing is retried and no blob is cached: within an invocation each of
   the three list endpoints is requested at most once, also when it has
   failed, and the blob requests number the present hashes of the records of
   the change list, a hash that occurs twice being requested twice. *)
C18_NoRetryNoCache ==
    /\ Len(RequestsOf("iterations")) <= 1
    /\ Len(RequestsOf("changes")) <= 1
    /\ Len(RequestsOf("threads")) <= 1
    /\ Len(RequestsOf("blob")) <= PresentHashCount(UpstreamRecords)
    /\ LoopOver => Len(RequestsOf("blob")) = PresentHashCount(UpstreamRecords)
    /\ pc = "error" => Len(requests) = returned

(* C18 witness: a finished run over two records that name the same hash h1,
   which has been requested twice *)
C18_Witness ==
    /\ pc = "done"
    /\ Len(UpstreamRecords) = 2
    /\ EntryOriginal(UpstreamRecords[1]) = << "h1" >>
    /\ EntryOriginal(UpstreamRecords[2]) = << "h1" >>
    /\ Len(SelectSeq(FetchedHashes, LAMBDA h : h = "h1")) >= 2

(* C19: every step leaves the upstream as it was, and every request issued, on
   the error paths too, is a GET. *)
C19_ReadOnly ==
    [][ /\ upstream' = upstream
        /\ \A i \in 1..Len(requests') : requests'[i].method = "GET" ]_vars

(* C19 witness: an invocation has ended in an error after two GET requests *)
C19_Witness ==
    /\ pc = "error"
    /\ Len(requests) = 2
    /\ \A i \in 1..Len(requests) : requests[i].method = "GET"

----------------------------------------------------------------------------
(* C14: an invocation that ends, with the same pr_id as the first invocation
   that ended and against the same upstream, ends the same way as that one and
   returns the same diff text and the same list of comments, whichever
   invocations ran in between. *)
C14_SameCallSameResult ==
    (pc \in { "done", "error" } /\ first # None /\ first[1].pr = pr_id) =>
        /\ first[1].outcome = outcome
        /\ first[1].result = result

(* C14 witness: a later invocation for pull request 42 has returned a block and
   a comment, as had the first invocation, which was for 42 too *)
C14_Witness ==
    /\ pc = "done"
    /\ first # None
    /\ first[1].pr = 42
    /\ pr_id = 42
    /\ result # None
    /\ Len(result[1].diff) > 5
    /\ Len(result[1].comments) >= 1
    /\ first[1].result = result

----------------------------------------------------------------------------
(* what the claim calls looking like a GUID: 36 characters, each a hex digit
   or a dash *)
LooksLikeGuid(key) ==
    /\ Len(key) = 36
    /\ \A i \in 1..Len(key) : key[i] \in HexDigits \cup { "-" }

NamedLike(key) ==
    { i \in 1..Len(repositories.value) : repositories.value[i].name = key }

(* C20: resolve_repo_id returns repo_key unchanged and issues no request
   exactly when repo_key is 36 characters of hex digits and dashes; for any
   other key it issues the one request that lists the repositories, what it
   returns is the id of a listed repository, the first one, whose name is
   exactly repo_key, and it fails when no listed repository has that name. *)
C20_GuidOrNameLookup ==
    repo_key # None =>
        LET key == Val(repo_key)
        IN  IF LooksLikeGuid(key)
            THEN /\ pc = "resolved"
                 /\ resolved = Some(key)
                 /\ requests = << >>
            ELSE /\ requests = << RepositoriesRequest >>
                 /\ pc = "resolved" =>
                       /\ NamedLike(key) # {}
                       /\ \E i \in NamedLike(key) :
                             /\ \A j \in NamedLike(key) : i <= j
                             /\ resolved = Some(repositories.value[i].id)
                 /\ (pc # "repositories" /\ NamedLike(key) = {}) =>
                       /\ pc = "resolve_error"
                       /\ outcome \in { "RuntimeError", "HTTPStatusError" }
                       /\ resolved = None

(* C20 witness: the name road-api has been looked up in a listing that holds
   Road-api before road-api, and the id of the second repository came back *)
C20_Witness ==
    /\ pc = "resolved"
    /\ repo_key = Some(NameKey)
    /\ requests = << RepositoriesRequest >>
    /\ Len(repositories.value) = 2
    /\ repositories.value[1].name = CaseKey
    /\ repositories.value[1].id = UpperKey
    /\ repositories.value[2].name = NameKey
    /\ repositories.value[2].id = NoDashKey
    /\ resolved = Some(NoDashKey)

----------------------------------------------------------------------------
(* C25 as stated: the diff text of a result is never empty, whatever the change
   list holds: it is the no-changes sentence or it holds a block. *)
C25_AsStated ==
    result # None =>
        /\ result[1].diff # << >>
        /\ \/ result[1].diff = SentenceFor(pr_id)
           \/ \E k \in 1..Len(result[1].diff) : result[1].diff[k] = ORIGINAL_MARK

(* C26 as stated: the requests of an invocation are all project-scoped or all
   organization-global. *)
C26_AsStated ==
    \A i, j \in 1..Len(requests) : requests[i].scope = requests[j].scope

----------------------------------------------------------------------------
(* has a request of the invocation failed in transport, so that it did not
   return *)
TransportFailed == outcome = "RequestError"

(* the request an error was raised by is a list request, the first that failed:
   its answer was an error status, or it was the iteration listing and empty *)
RaisedByListRequest ==
    LET last == requests[Len(requests)]
    IN  /\ returned = Len(requests)
        /\ \/ /\ outcome = "HTTPStatusError"
              /\ upstream.fault = last.resource
           \/ /\ outcome = "RuntimeError"
              /\ last.resource = "iterations"
              /\ upstream.fault = "none"
              /\ upstream.iterations = << >>

RequestBound == 3 + 2 * Len(UpstreamEntries)

(* C29: an invocation whose requests are all answered ends: it reaches a
   result or an error; the error, when every request returned, was raised by
   the first list request that failed, a result means no list request failed;
   and at no moment has it issued more than 3 requests plus two for each entry
   of the change list. *)
C29_Terminates ==
    /\ [](Len(requests) <= RequestBound)
    /\ []((pc = "error" /\ ~TransportFailed) => RaisedByListRequest)
    /\ [](pc = "done" => (result # None /\ upstream.fault = "none"))
    /\ (pc # "idle") ~> (pc \in { "done", "error" })

(* C29 witness: an invocation over two entries with both hashes each has ended
   with a result after 3 + 2 * 2 requests, all of them answered *)
C29_Witness ==
    /\ pc = "done"
    /\ result # None
    /\ Len(UpstreamEntries) = 2
    /\ Len(requests) = 7
    /\ returned = 7

----------------------------------------------------------------------------
InCommentCall == pc \in { "post_thread", "comment_done", "comment_error" }

(* C22: during and after a call of add_pull_request_comment exactly one
   request has been issued, a POST to the threads of the pull request, whose
   payload holds exactly one comment, with the text given; the payload has a
   threadContext exactly when both file_path and line were given (0 and the
   empty path count as given), and then it names that path and has the start
   and the end of the right side at that line. *)
C22_AnchoredIffBothGiven ==
    InCommentCall =>
        LET a == Val(args)
        IN  /\ requests = << ThreadsPost(a.pr) >>
            /\ requests[1].method = "POST"
            /\ Len(payloads) = 1
            /\ Len(payloads[1].comments) = 1
            /\ payloads[1].comments[1].content = a.comment
            /\ ("threadContext" \in DOMAIN payloads[1]) <=>
                   (a.file_path # None /\ a.line # None)
            /\ ("threadContext" \in DOMAIN payloads[1]) =>
                   /\ payloads[1].threadContext.filePath = Val(a.file_path)
                   /\ payloads[1].threadContext.rightFileStart.line = Val(a.line)
                   /\ payloads[1].threadContext.rightFileEnd.line = Val(a.line)
                   /\ "leftFileStart" \notin DOMAIN payloads[1].threadContext

(* C22 witness: a comment on line 0 of /src/a.py has been posted with a
   threadContext *)
C22_Witness ==
    /\ pc = "comment_done"
    /\ Val(args).file_path = Some("/src/a.py")
    /\ Val(args).line = Some(0)
    /\ "threadContext" \in DOMAIN payloads[1]
    /\ payloads[1].threadContext.rightFileStart.line = 0
    /\ Len(service.posted) = 1

(* the record the reader gives for the k-th thread posted to the pull request
   that is read: the threads that were there before come first, and each
   posted thread has one comment *)
RecordOfPosted(k) == result[1].comments[Len(NormalizeThreads(upstream.threads)) + k]

PostedToRead == SelectSeq(service.posted, LAMBDA p : p.pr = pr_id)

(* C27: when get_pull_request_full_diff returns, each comment that was posted
   to the pull request before has its record: the content is the text that was
   posted; the file and the line are the ones given when both were given, and
   both null when one of them was omitted. *)
C27_WriteThenRead ==
    (pc = "done" /\ result # None) =>
        /\ Len(result[1].comments) =
               Len(NormalizeThreads(upstream.threads)) + Len(PostedToRead)
        /\ \A k \in 1..Len(PostedToRead) :
              LET a == PostedToRead[k].call
                  rec == RecordOfPosted(k)
              IN  /\ rec.content = Some(a.comment)
                  /\ IF a.file_path # None /\ a.line # None
                     THEN rec.file = a.file_path /\ rec.line = a.line
                     ELSE rec.file = None /\ rec.line = None

(* C27 witness: pull request 42 is read after a comment on line 0 of
   /src/a.py and a comment with a path and no line were posted to it *)
C27_Witness ==
    /\ pc = "done"
    /\ pr_id = 42
    /\ result # None
    /\ Len(PostedToRead) = 2
    /\ PostedToRead[1].call.line = Some(0)
    /\ PostedToRead[1].call.file_path = Some("/src/a.py")
    /\ RecordOfPosted(1).line = Some(0)
    /\ RecordOfPosted(1).file = Some("/src/a.py")
    /\ PostedToRead[2].call.line = None
    /\ PostedToRead[2].call.file_path = Some("/src/a.py")
    /\ RecordOfPosted(2).file = None

----------------------------------------------------------------------------
InCreateCall == pc \in { "post_pr", "create_done", "create_error" }

(* what the caller meant: a full ref is a name that begins with refs/, any
   other name is a short name *)
IsFullRef(branch) ==
    /\ Len(branch) >= 5
    /\ SubSeq(branch, 1, 5) = << "r", "e", "f", "s", "/" >>

SentFor(branch) ==
    IF IsFullRef(branch) THEN branch
    ELSE << "r", "e", "f", "s", "/", "h", "e", "a", "d", "s", "/" >> \o branch

(* C21: the one request of create_pull_request carries a branch that was given
   as a full ref (a name that begins with refs/) unchanged and a branch given
   as a short name with refs/heads/ put in front; both names that are sent
   begin with refs/, and normalising them again changes nothing. *)
C21_BranchesNormalized ==
    InCreateCall =>
        LET a == Val(args)
            sent == payloads[1]
        IN  /\ requests = << PullRequestsPost >>
            /\ Len(payloads) = 1
            /\ sent.sourceRefName = SentFor(a.source_branch)
            /\ sent.targetRefName = SentFor(a.target_branch)
            /\ IsFullRef(sent.sourceRefName)
            /\ IsFullRef(sent.targetRefName)
            /\ NormalizeBranch(sent.sourceRefName) = sent.sourceRefName
            /\ NormalizeBranch(sent.targetRefName) = sent.targetRefName

(* C21 witness: a pull request from the short name main to the full ref
   refs/heads/main has been created, both sent as refs/heads/main *)
C21_Witness ==
    /\ pc = "create_done"
    /\ Val(args).source_branch = MainName
    /\ Val(args).target_branch = HeadsPrefix \o MainName
    /\ payloads[1].sourceRefName = HeadsPrefix \o MainName
    /\ payloads[1].targetRefName = HeadsPrefix \o MainName

(* the short name of a ref: what follows the leading refs/heads/ *)
AfterHeads(full_name) ==
    IF StartsWith(full_name, HeadsPrefix)
    THEN SubSeq(full_name, Len(HeadsPrefix) + 1, Len(full_name))
    ELSE full_name

FullNamesOf(records) == [ i \in 1..Len(records) |-> records[i].fullName ]

UpstreamFullNames == [ i \in 1..Len(service.refs) |-> FullName(service.refs[i]) ]

(* C23 as stated: with a filter the branches returned are exactly the refs of
   the listing whose short name begins with the filter, case ignored, in the
   order of the listing; without a filter every ref is returned. *)
C23_AsStated ==
    pc = "branches_done" =>
        LET f == Val(args).filter_name
        IN  FullNamesOf(Val(result)) =
                IF f = None \/ f = Some(<< >>) THEN UpstreamFullNames
                ELSE SelectSeq(UpstreamFullNames,
                               LAMBDA full : StartsWith(Lower(AfterHeads(full)),
                                                        Lower(Val(f))))

(* C30 as stated: for a branch returned with a full name under refs/heads/,
   the full name is refs/heads/ followed by the name, and create_pull_request
   sends the same ref for the name as for the full name. *)
C30_AsStated ==
    pc = "branches_done" =>
        \A i \in 1..Len(Val(result)) :
            LET b == Val(result)[i]
            IN  StartsWith(b.fullName, HeadsPrefix) =>
                    /\ b.fullName = HeadsPrefix \o b.name
                    /\ NormalizeBranch(b.name) = NormalizeBranch(b.fullName)

----------------------------------------------------------------------------
InLinkCall == pc \in { "project", "patch_workitem", "link_done", "link_error" }

(* the link of a pull request: the id of a project, the repository, the number *)
LinkOf(project_id, pr) ==
    << "vstfs:///Git/PullRequestId/", project_id, "%2F", REPO, "%2F" >> \o IntToStr(pr)

(* C24: a record with success = True is returned only when the PATCH, the
   second and last request of the call, has been answered with a success
   status and the work item has the ArtifactLink relation; the link of that
   relation names the id that the lookup of the project given in the call
   returned, the repository and the pull request.  (A lookup answered without
   an id gives a link with the text None for the id.) *)
C24_SuccessMeansLinked ==
    (InLinkCall /\ result # None) =>
        LET a == Val(args)
            answer == service.projects[a.project]
            link == service.relations[Len(service.relations)]
        IN  /\ pc = "link_done"
            /\ Val(result).success = TRUE
            /\ Val(result).workItemId = a.work_item_id
            /\ Val(result).prId = a.pr
            /\ requests = << ProjectRequest(a.project),
                             WorkItemPatch(a.project, a.work_item_id) >>
            /\ returned = 2
            /\ Is2xx(answer.status)
            /\ Is2xx(service.patch_status)
            /\ service.relations # << >>
            /\ link.work_item = a.work_item_id
            /\ link.rel = "ArtifactLink"
            /\ link.url = LinkOf(IF answer.id = None THEN "None" ELSE answer.id[1], a.pr)

(* C24 witness: pull request 105 has been linked to work item 457 through
   project Beta, whose id is p-2, in a service where Alpha has the id p-1 *)
C24_Witness ==
    /\ pc = "link_done"
    /\ Val(args).project = "Beta"
    /\ Val(args).pr = 105
    /\ Val(args).work_item_id = 457
    /\ service.projects["Alpha"].id = Some("p-1")
    /\ service.projects["Beta"].id = Some("p-2")
    /\ Val(result).success = TRUE
    /\ service.relations[Len(service.relations)].url = LinkOf("p-2", 105)

HasPatch(reqs) == \E i \in 1..Len(reqs) : reqs[i].method = "PATCH"

(* C28: when the project lookup is answered with an error status the call
   ends there with an error: no PATCH is issued and the service is left as it
   was; and a PATCH is never in the requests before the lookup has returned
   with a success status. *)
C28_NoWriteAfterFailedLookup ==
    [][ /\ (pc = "project" /\ ~Is2xx(service.projects[Val(args).project].status)) =>
              /\ pc' = "link_error"
              /\ outcome' = "HTTPStatusError"
              /\ requests' = requests
              /\ ~HasPatch(requests')
              /\ payloads' = << >>
              /\ service' = service
        /\ (pc = "idle" /\ pc' = "project") => ~HasPatch(requests')
        /\ (pc' # "idle" /\ HasPatch(requests')) =>
              /\ returned' >= 1
              /\ requests'[1].method = "GET"
              /\ requests'[1].resource = "project"
              /\ Is2xx(service.projects[Val(args).project].status)
      ]_vars

(* C28 witness: the lookup of a project failed with one request issued, after
   an earlier call had linked a pull request, and that link is all the work
   items have *)
C28_Witness ==
    /\ pc = "link_error"
    /\ outcome = "HTTPStatusError"
    /\ Len(requests) = 1
    /\ returned = 1
    /\ ~Is2xx(service.projects[Val(args).project].status)
    /\ Len(service.relations) = 1

============================================================================
